---- MODULE Spec2Model ----
(***************************************************************************)
(* Tabs 2.5.1 (src/plugins/tabs/tabs.js): the tab widget as a state        *)
(* machine.                                                                *)
(*                                                                         *)
(* A container holds NTabs tab links (li > a) and nSec content sections;   *)
(* tab p links to section p, which exists iff p <= nSec.  The state of a   *)
(* container is the class state of its li elements (selectedClass,         *)
(* disabledClass), the class and inline display of its sections (hideClass *)
(* and style.display) and the animation queue of every section.            *)
(*                                                                         *)
(* jQuery's animate(props, speed, callback) is modelled by what the        *)
(* plugin relies on: animations of one element run one after the other     *)
(* (the element's fx queue), the callback runs once for every element of   *)
(* the animated set when that element's animation ends (never for an empty *)
(* set), a finished 'hide' leaves style.display = 'none' and a finished    *)
(* 'show' leaves style.display = 'block'.                                  *)
(*                                                                         *)
(* A handler runs to completion: the step after it is the return to the    *)
(* event loop, or the onClick timeout it has set.  The callbacks onClick,  *)
(* onHide and onShow are taken to be given in the settings; onHide is      *)
(* invoked in every hide callback, onShow in every show callback.          *)
(*                                                                         *)
(* Spec is the widget after tabs() on one container; LiveSpec adds the     *)
(* firing of timers.  InitSpec is the tabs() call itself, on one or more   *)
(* containers.  AnimSpec is the setup of the animations from the fx        *)
(* settings and AutoHeightSpec the fxAutoHeight poll, both on one          *)
(* container.                                                              *)
(*                                                                         *)
(* Left out: scroll position, focus, the history plugin, the IE6 branch of *)
(* _setAutoHeight and the temporary removal of the section's id attribute  *)
(* (a scroll workaround of IE and Opera).                                  *)
(***************************************************************************)
EXTENDS Integers, Sequences, FiniteSets, TLC

\* Bounds of the model.
NTabs == 3
MaxAnims == 2
NContainers == 2
MaxSize == 2

Tabs == 1..NTabs
Sections == 1..NTabs
\* Positions handed to tabs(), triggerTab(), disableTab(), enableTab().
Positions == (0 - 1)..(NTabs + 1)
Browsers == {"msie", "safari", "other"}
\* A URL fragment: <<c, p>> is the fragment of tab p of container c.
NoHash == <<0, 0>>
\* The arguments of a tabs() call and the page's location.hash at that time.
NoArgs == [hasInitial |-> FALSE, initial |-> 0, hasOptInitial |-> FALSE,
           optInitial |-> 0, optDisabled |-> {}, hash |-> NoHash]

\* The fx settings of a tabs() call without any: null is "null" for a speed
\* and the empty set for an animation object.
NoFxSettings ==
    [fxSlide |-> FALSE, fxFade |-> FALSE, fxShow |-> {}, fxHide |-> {},
     fxSpeed |-> "normal", fxShowSpeed |-> "null", fxHideSpeed |-> "null"]

\* var showAnim = {}, hideAnim = {}; var showSpeed, hideSpeed;
NoFx ==
    [settings |-> NoFxSettings, done |-> FALSE,
     showAnim |-> {}, hideAnim |-> {}, showSpeed |-> "null", hideSpeed |-> "null"]

\* fxAutoHeight: false.
NoAutoHeight ==
    [on |-> FALSE, did |-> "none",
     width |-> 1, fontSize |-> 1,
     natural |-> [s \in Sections |-> 1],
     minHeight |-> [s \in Sections |-> 0],
     cachedWidth |-> 1, cachedHeight |-> 1, cachedFontSize |-> 1,
     seenWidth |-> 1, seenHeight |-> 1, seenFontSize |-> 1]

VARIABLES
    pc,            \* "start": before $(...).tabs() is called; "ready": after
    args,          \* the arguments of the tabs() call and location.hash at the
                   \* call (NoArgs where the model does not keep them)
    browser,       \* $.browser
    bookmarkable,  \* settings.bookmarkable
    nSec,          \* [container -> number of content sections in the markup]
    selected,      \* [container -> tabs whose li has selectedClass]
    disabled,      \* [container -> tabs whose li has disabledClass]
    hideClass,     \* [container -> sections that have hideClass]
    display,       \* [container -> [section -> inline style.display]]
    fxQueue,       \* [container -> [section -> queue of animations]]
    handled        \* the event whose handler has just run: its kind, container
                   \* and position, the fragment it moved the location to,
                   \* whether it called alert(), the value it returned and the
                   \* containers whose onClick timeout it has set;
                   \* NoEvent once control is back in the browser's event loop
    ,
    fx,            \* the fx settings of the tabs() call and the animations set
                   \* up from them (NoFx where the model does not keep them)
    ah             \* the fxAutoHeight poll: sizes, cached sizes and the
                   \* sections' min-height (NoAutoHeight when fxAutoHeight is off)

vars == <<pc, args, browser, bookmarkable, nSec, selected,
          disabled, hideClass, display, fxQueue, handled, fx, ah>>

Containers == DOMAIN selected

\* The handler of event op on tab (or position) pos of container c has run;
\* it has set no location, raised no alert, returned false and set no timeout.
Event(op, c, pos) ==
    [op |-> op, c |-> c, pos |-> pos, hash |-> NoHash,
     alert |-> FALSE, ret |-> FALSE, timers |-> {}]

NoEvent == Event("none", 0, 0)

\* JavaScript runs one handler at a time, to completion: an event is handled
\* only when the widget is set up and no handler is running.
Idle == pc = "ready" /\ handled = NoEvent

----------------------------------------------------------------------------
\* Helpers

Max(S) == CHOOSE x \in S : \A y \in S : y <= x

Min(S) == CHOOSE x \in S : \A y \in S : x <= y

RECURSIVE SumLen(_, _)
SumLen(q, S) ==
    IF S = {} THEN 0
    ELSE LET s == CHOOSE x \in S : TRUE
         IN Len(q[s]) + SumLen(q, S \ {s})

\* Number of animations queued or running in container c.
AnimCount(c) == SumLen(fxQueue[c], Sections)

\* A mutant of IsDisabled: the disabled class is not looked at.
IsDisabledNever(c, p) == FALSE

\* $(this.parentNode).is('.' + settings.disabledClass)
IsDisabled(c, p) == p \in disabled[c]

\* A mutant of IsSelected: the selected class is not looked at.
IsSelectedNever(c, p) == FALSE

\* jqLi.is('.' + settings.selectedClass)
IsSelected(c, p) == p \in selected[c]

\* A mutant of SectionExists: the size of toShow is not looked at.
SectionExistsAlways(c, p) == TRUE

\* $(this.hash).size() > 0
SectionExists(c, p) == p <= nSec[c]

\* jQuery's :visible for a section: its computed display is not none.  The
\* inline style wins over the class; hideClass means display: none.
IsVisible(c, s) ==
    /\ s <= nSec[c]
    /\ display[c][s] # "none"
    /\ (display[c][s] = "block" \/ s \notin hideClass[c])

\* $('>' + settings.tabStruct + ':visible', container)
VisibleSections(c) == {s \in Sections : IsVisible(c, s)}

\* A mutant of TabIndex: no fall back to 0.
TabIndexNoFallback(pos) == pos - 1

\* var i = tabIndex && tabIndex > 0 && tabIndex - 1 || 0
TabIndex(pos) == IF pos > 0 THEN pos - 1 ELSE 0

\* $('>ul:eq(0)>li>a', this).eq(i): the tab with 0-based index i, if any.
TabAt(i) == {p \in Tabs : p - 1 = i}

----------------------------------------------------------------------------
\* $.fn.tabs: initialization

\* A mutant of SettingsInitial: the initial argument is not decremented.
SettingsInitialAsGiven(a) ==
    IF a.hasOptInitial THEN a.optInitial
    ELSE IF a.hasInitial /\ a.initial > 0 THEN a.initial
    ELSE 0

\* initial: (initial && typeof initial == 'number' && initial > 0) ? --initial : 0,
\* overridden by an `initial` of the settings object ($.extend).
SettingsInitial(a) ==
    IF a.hasOptInitial THEN a.optInitial
    ELSE IF a.hasInitial /\ a.initial > 0 THEN a.initial - 1
    ELSE 0

\* The settings object after $.extend: one object for all containers.
MakeSettings(a) == [initial |-> SettingsInitial(a), disabled |-> a.optDisabled]

\* this.hash of tab p of container c: every tab links to its own section.
TabHash(c, p) == <<c, p>>

\* A mutant of HashInitial: location.hash is not looked at.
HashInitialIgnored(c, s, hash) == s

\* if (location.hash) $('>ul:eq(0)>li>a', this).each(function(i) {...}): the
\* first tab whose hash is location.hash sets settings.initial (return false
\* ends the loop).
HashInitial(c, s, hash) ==
    LET matches == {p \in Tabs : TabHash(c, p) = hash}
    IN  IF hash # NoHash /\ matches # {}
        THEN [s EXCEPT !.initial = Min(matches) - 1]
        ELSE s

\* A mutant of DisabledIndices: the positions are used as indices.
DisabledIndicesAsGiven(D) == D

\* --settings.disabled[i], for every i: the positions become indices.
DisabledIndices(D) == {d - 1 : d \in D}

\* The body of this.each(function() {...}) for container c with ns sections:
\* the settings it leaves and the state it gives the container.
InitContainer(c, s, hash, ns) ==
    LET s1 == HashInitial(c, s, hash)
        s2 == [s1 EXCEPT !.disabled = DisabledIndices(s1.disabled)]
    IN  [settings |-> s2,
         selected |-> TabAt(s1.initial),
         hideClass |-> {k \in 1..ns : k - 1 # s1.initial},
         disabled |-> UNION {TabAt(i) : i \in s2.disabled}]

\* this.each over containers c..n, the settings object passed along.
RECURSIVE TabsEach(_, _, _, _, _)
TabsEach(c, n, s, hash, ns) ==
    IF c > n THEN <<>>
    ELSE LET r == InitContainer(c, s, hash, ns[c])
         IN  <<r>> \o TabsEach(c + 1, n, r.settings, hash, ns)

\* $(containers).tabs(initial, settings) on n containers with ns[c] sections.
TabsResult(a, ns, n) == TabsEach(1, n, MakeSettings(a), a.hash, ns)

\* The calls the model makes on n containers; location.hash is empty, the
\* fragment of a tab of the page or a fragment of no tab of the page.
ArgSpace(n) ==
    [hasInitial : BOOLEAN, initial : Positions,
     hasOptInitial : BOOLEAN, optInitial : 0..NTabs,
     optDisabled : SUBSET (1..NTabs),
     hash : {NoHash} \cup ((1..(n + 1)) \X Tabs)]

EmptyQueues == [s \in Sections |-> <<>>]
NoDisplay == [s \in Sections |-> ""]

\* The state after construction of one container.
Init ==
    /\ pc = "ready"
    /\ args = NoArgs
    /\ browser \in Browsers
    /\ bookmarkable \in BOOLEAN
    /\ nSec \in [{1} -> {NTabs - 1, NTabs}]
    /\ \E a \in ArgSpace(1) :
          LET r == TabsResult(a, nSec, 1)
          IN  /\ selected = [c \in {1} |-> r[c].selected]
              /\ disabled = [c \in {1} |-> r[c].disabled]
              /\ hideClass = [c \in {1} |-> r[c].hideClass]
    /\ display = [c \in {1} |-> NoDisplay]
    /\ fxQueue = [c \in {1} |-> EmptyQueues]
    /\ handled = Event("init", 0, 0)
    /\ fx = NoFx
    /\ ah = NoAutoHeight

----------------------------------------------------------------------------
\* The click handler

ClickAccepted(c, p) ==
    /\ ~IsDisabled(c, p)
    /\ ~IsSelected(c, p)
    /\ SectionExists(c, p)

\* toHide.animate(hideAnim, hideSpeed, callback): one hide animation queued
\* on every visible section.
ClickQueue(c, p) ==
    IF ClickAccepted(c, p)
    THEN LET toHide == VisibleSections(c)
             a == [kind |-> "hide", clicked |-> p, toHide |-> toHide]
         IN  [s \in Sections |->
                 IF s \in toHide THEN Append(fxQueue[c][s], a) ELSE fxQueue[c][s]]
    ELSE fxQueue[c]

\* The model's cap on queued animations.
ClickWithinBound(c, p) ==
    ClickAccepted(c, p) => AnimCount(c) + Cardinality(VisibleSections(c)) <= MaxAnims

\* A mutant of ClickTimer: the timeout is set by every click.
ClickTimerAlways(c, p) == TRUE

\* setTimeout(function() { onClick(clicked, toShow[0], toHide[0]); }, 0),
\* with an onClick function in the settings: set by an accepted click.
ClickTimer(c, p) == ClickAccepted(c, p)

\* alert('There is no such container.')
ClickAlerts(c, p) ==
    /\ ~IsDisabled(c, p)
    /\ ~IsSelected(c, p)
    /\ ~SectionExists(c, p)

\* A mutant of ClickReturn: one return statement for every path.
ClickReturnBookmarkable(c, p) == bookmarkable

\* The value the click handler returns: false for a disabled tab, otherwise
\* settings.bookmarkable.
ClickReturn(c, p) == IF IsDisabled(c, p) THEN FALSE ELSE bookmarkable

\* A user's click on tab p of container c.
Click(c, p) ==
    /\ Idle
    /\ ClickWithinBound(c, p)
    /\ fxQueue' = [fxQueue EXCEPT ![c] = ClickQueue(c, p)]
    /\ handled' = [Event("click", c, p) EXCEPT
                       !.alert = ClickAlerts(c, p),
                       !.ret = ClickReturn(c, p),
                       !.timers = IF ClickTimer(c, p) THEN {c} ELSE {}]
    /\ UNCHANGED <<fx, ah, pc, args, browser, bookmarkable, nSec,
                   selected, disabled, hideClass, display>>

\* A mutant of SelectTab: the class is added, the siblings keep theirs.
SelectTabKeepSiblings(c, p) == selected[c] \cup {p}

\* $(clicked.parentNode).addClass(selectedClass).siblings().removeClass(selectedClass):
\* the tabs selected afterwards.
SelectTab(c, p) == {p}

\* The callback of toHide.animate for element s: the hide animation of s has
\* ended; the clicked tab is selected and the show animation of toShow queued.
HideComplete(c, s) ==
    /\ Idle
    /\ fxQueue[c][s] # <<>>
    /\ Head(fxQueue[c][s]).kind = "hide"
    /\ LET a == Head(fxQueue[c][s])
           toShow == a.clicked
           q == [fxQueue[c] EXCEPT ![s] = Tail(@)]
           show == [kind |-> "show", clicked |-> a.clicked, toHide |-> a.toHide]
       IN  /\ display' = [display EXCEPT ![c][s] = "none"]
           /\ selected' = [selected EXCEPT ![c] = SelectTab(c, a.clicked)]
           /\ hideClass' = [hideClass EXCEPT ![c] = @ \ {toShow}]
           /\ fxQueue' = [fxQueue EXCEPT ![c] = [q EXCEPT ![toShow] = Append(@, show)]]
           /\ handled' = Event("hideDone", c, a.clicked)
    /\ UNCHANGED <<fx, ah, pc, args, browser, bookmarkable, nSec, disabled>>

\* The callback of toShow.animate: the show animation of s has ended.
ShowComplete(c, s) ==
    /\ Idle
    /\ fxQueue[c][s] # <<>>
    /\ Head(fxQueue[c][s]).kind = "show"
    /\ LET a == Head(fxQueue[c][s])
       IN  /\ display' = [display EXCEPT ![c] =
                 [t \in Sections |->
                     IF t \in a.toHide THEN ""
                     ELSE IF t = s THEN "block"
                     ELSE display[c][t]]]
           /\ hideClass' = [hideClass EXCEPT ![c] = @ \cup a.toHide]
           /\ fxQueue' = [fxQueue EXCEPT ![c][s] = Tail(@)]
           /\ handled' = Event("showDone", c, a.clicked)
    /\ UNCHANGED <<fx, ah, pc, args, browser, bookmarkable, nSec,
                   selected, disabled>>

----------------------------------------------------------------------------
\* The commands triggerTab, disableTab, enableTab

\* tabs.bind('triggerTab', ...): $(hash).is(':hidden') && not disabled
TriggerGuard(c, p) ==
    /\ SectionExists(c, p)
    /\ ~IsVisible(c, p)
    /\ ~IsDisabled(c, p)

\* A mutant of TriggerClicks: every branch clicks.
TriggerClicksAlways == TRUE

\* Whether the triggerTab handler calls $(this).click().
TriggerClicks == browser \in {"msie", "safari"} \/ ~bookmarkable

\* Whether the triggerTab handler moves the location to the tab's fragment
\* (location.hash = ..., or the form submitted in Safari).
TriggerSetsHash == browser = "safari" \/ bookmarkable

\* The tab of container c that triggerTab(pos) acts on, if any.
TriggerTarget(c, pos) == {p \in TabAt(TabIndex(pos)) : TriggerGuard(c, p)}

TriggerQueue(c, pos) ==
    IF TriggerTarget(c, pos) # {} /\ TriggerClicks
    THEN ClickQueue(c, CHOOSE p \in TriggerTarget(c, pos) : TRUE)
    ELSE fxQueue[c]

TriggerHash(pos) ==
    LET cs == {c \in Containers : TriggerTarget(c, pos) # {}}
    IN  IF cs # {} /\ TriggerSetsHash
        THEN <<Max(cs), TabIndex(pos) + 1>>
        ELSE NoHash

\* The containers in which triggerTab(pos) sets an onClick timeout, through
\* $(this).click().
TriggerTimers(pos) ==
    {c \in Containers :
        /\ TriggerClicks
        /\ \E p \in TriggerTarget(c, pos) : ClickTimer(c, p)}

\* $(containers).triggerTab(pos)
TriggerTab(pos) ==
    /\ Idle
    /\ \A c \in Containers : \A p \in TriggerTarget(c, pos) :
          TriggerClicks => ClickWithinBound(c, p)
    /\ fxQueue' = [c \in Containers |-> TriggerQueue(c, pos)]
    /\ handled' = [Event("triggerTab", 0, pos) EXCEPT
                       !.hash = TriggerHash(pos),
                       !.timers = TriggerTimers(pos)]
    /\ UNCHANGED <<fx, ah, pc, args, browser, bookmarkable, nSec, selected, disabled,
                   hideClass, display>>

\* A mutant of DisableEffect: the class is added to every li.
DisableEffectAll(c, pos) == Tabs

\* tabs.bind('disableTab', ...)
DisableEffect(c, pos) == disabled[c] \cup TabAt(TabIndex(pos))

\* $(containers).disableTab(pos)
DisableTab(pos) ==
    /\ Idle
    /\ disabled' = [c \in Containers |-> DisableEffect(c, pos)]
    /\ handled' = Event("disableTab", 0, pos)
    /\ UNCHANGED <<fx, ah, pc, args, browser, bookmarkable, nSec,
                   selected, hideClass, display, fxQueue>>

\* tabs.bind('enableTab', ...)
EnableEffect(c, pos) == disabled[c] \ TabAt(TabIndex(pos))

\* $(containers).enableTab(pos)
EnableTab(pos) ==
    /\ Idle
    /\ disabled' = [c \in Containers |-> EnableEffect(c, pos)]
    /\ handled' = Event("enableTab", 0, pos)
    /\ UNCHANGED <<fx, ah, pc, args, browser, bookmarkable, nSec,
                   selected, hideClass, display, fxQueue>>

\* The tab whose click handler has set the pending onClick timeouts.
TimerClicked ==
    IF handled.op = "triggerTab" THEN TabIndex(handled.pos) + 1 ELSE handled.pos

\* The onClick timeout of container c fires.  Its delay is 0: it is due as
\* soon as the handler that set it has returned, before any event that
\* arrives later and before any timer set after it (the timer of the hide
\* animation).
OnClickTimeout(c) ==
    /\ pc = "ready"
    /\ c \in handled.timers
    /\ handled' = [Event("onClick", c, TimerClicked) EXCEPT
                       !.timers = handled.timers \ {c}]
    /\ UNCHANGED <<fx, ah, pc, args, browser, bookmarkable, nSec, selected, disabled,
                   hideClass, display, fxQueue>>

\* The handler returns and no timeout is due: control is back in the event
\* loop.
Return ==
    /\ handled # NoEvent
    /\ handled.timers = {}
    /\ handled' = NoEvent
    /\ UNCHANGED <<fx, ah, pc, args, browser, bookmarkable, nSec, selected, disabled,
                   hideClass, display, fxQueue>>

Next ==
    \/ Return
    \/ \E c \in Containers : OnClickTimeout(c)
    \/ \E c \in Containers, p \in Tabs : Click(c, p)
    \/ \E c \in Containers, s \in Sections : HideComplete(c, s)
    \/ \E c \in Containers, s \in Sections : ShowComplete(c, s)
    \/ \E pos \in Positions : TriggerTab(pos)
    \/ \E pos \in Positions : DisableTab(pos)
    \/ \E pos \in Positions : EnableTab(pos)

Spec == Init /\ [][Next]_vars

\* Timers fire: a handler that has run returns, a timeout that is due runs,
\* and an animation that is running on a section ends at one of the moments
\* at which no handler runs, however many other events are handled.
Fairness ==
    /\ WF_vars(Return)
    /\ WF_vars(OnClickTimeout(1))
    /\ \A s \in Sections : SF_vars(HideComplete(1, s))
    /\ \A s \in Sections : SF_vars(ShowComplete(1, s))

LiveSpec == Init /\ [][Next]_vars /\ Fairness

----------------------------------------------------------------------------
\* Initialization of several containers by one tabs() call

\* The page before the call: the markup of one or more containers as written,
\* no class set.
InitPage ==
    /\ pc = "start"
    /\ browser \in Browsers
    /\ bookmarkable \in BOOLEAN
    /\ \E n \in 1..NContainers :
          /\ args \in ArgSpace(n)
          /\ nSec \in [1..n -> {NTabs - 1, NTabs}]
          /\ selected = [c \in 1..n |-> {}]
          /\ disabled = [c \in 1..n |-> {}]
          /\ hideClass = [c \in 1..n |-> {}]
          /\ display = [c \in 1..n |-> NoDisplay]
          /\ fxQueue = [c \in 1..n |-> EmptyQueues]
    /\ handled = NoEvent
    /\ fx = NoFx
    /\ ah = NoAutoHeight

\* $(containers).tabs(initial, settings)
TabsCall ==
    /\ pc = "start"
    /\ pc' = "ready"
    /\ LET r == TabsResult(args, nSec, Max(Containers))
       IN  /\ selected' = [c \in Containers |-> r[c].selected]
           /\ disabled' = [c \in Containers |-> r[c].disabled]
           /\ hideClass' = [c \in Containers |-> r[c].hideClass]
    /\ handled' = Event("tabs", 0, 0)
    /\ UNCHANGED <<fx, ah, args, browser, bookmarkable, nSec, display, fxQueue>>

NextInit ==
    \/ TabsCall
    \/ Return

InitSpec == InitPage /\ [][NextInit]_vars

----------------------------------------------------------------------------
\* $.fn.tabs: setup animations

\* The fx settings the model hands to tabs().
FxSettings ==
    [fxSlide : BOOLEAN, fxFade : BOOLEAN,
     fxShow : {{}, {<<"width", "show">>}},
     fxHide : {{}, {<<"width", "hide">>}},
     fxSpeed : {"normal", "fast"},
     fxShowSpeed : {"null", "slow"},
     fxHideSpeed : {"null", "slow"}]

\* a || b for speeds.
OrSpeed(a, b) == IF a # "null" THEN a ELSE b

\* showAnim['height'] = 'show' if fxSlide, showAnim['opacity'] = 'show' if
\* fxFade (and the same with 'hide').
SlideFadeAnim(o, v) ==
    (IF o.fxSlide THEN {<<"height", v>>} ELSE {}) \cup
    (IF o.fxFade THEN {<<"opacity", v>>} ELSE {})

\* settings.bookmarkable ? 50 : 1
DefaultSpeed == IF bookmarkable THEN "50" ELSE "1"

\* showAnim and showSpeed
ShowSetup(o) ==
    IF o.fxSlide \/ o.fxFade
    THEN [anim |-> SlideFadeAnim(o, "show"), speed |-> o.fxSpeed]
    ELSE IF o.fxShow # {}
    THEN [anim |-> o.fxShow, speed |-> OrSpeed(o.fxShowSpeed, o.fxSpeed)]
    ELSE [anim |-> {<<"opacity", "show">>}, speed |-> DefaultSpeed]

\* A mutant of HideSetup: the hide animation follows the strategy of the
\* show animation.
HideSetupAsShow(o) ==
    IF o.fxSlide \/ o.fxFade
    THEN [anim |-> SlideFadeAnim(o, "hide"), speed |-> o.fxSpeed]
    ELSE IF o.fxShow # {}
    THEN [anim |-> o.fxHide, speed |-> OrSpeed(o.fxHideSpeed, o.fxSpeed)]
    ELSE [anim |-> {<<"opacity", "hide">>}, speed |-> DefaultSpeed]

\* hideAnim and hideSpeed
HideSetup(o) ==
    IF o.fxSlide \/ o.fxFade
    THEN [anim |-> SlideFadeAnim(o, "hide"), speed |-> o.fxSpeed]
    ELSE IF o.fxHide # {}
    THEN [anim |-> o.fxHide, speed |-> OrSpeed(o.fxHideSpeed, o.fxSpeed)]
    ELSE [anim |-> {<<"opacity", "hide">>}, speed |-> DefaultSpeed]

\* A tabs() call with fx settings on one container, before the animations
\* are set up.
AnimInit ==
    /\ pc = "start"
    /\ args = NoArgs
    /\ browser = "other"
    /\ bookmarkable \in BOOLEAN
    /\ nSec = [c \in {1} |-> NTabs]
    /\ selected = [c \in {1} |-> {}]
    /\ disabled = [c \in {1} |-> {}]
    /\ hideClass = [c \in {1} |-> {}]
    /\ display = [c \in {1} |-> NoDisplay]
    /\ fxQueue = [c \in {1} |-> EmptyQueues]
    /\ handled = NoEvent
    /\ \E o \in FxSettings : fx = [NoFx EXCEPT !.settings = o]
    /\ ah = NoAutoHeight

\* // setup animations
SetupAnimations ==
    /\ pc = "start"
    /\ ~fx.done
    /\ fx' = [fx EXCEPT !.done = TRUE,
                        !.showAnim = ShowSetup(fx.settings).anim,
                        !.showSpeed = ShowSetup(fx.settings).speed,
                        !.hideAnim = HideSetup(fx.settings).anim,
                        !.hideSpeed = HideSetup(fx.settings).speed]
    /\ UNCHANGED <<ah, pc, args, browser, bookmarkable, nSec, selected, disabled,
                   hideClass, display, fxQueue, handled>>

NextAnim == SetupAnimations

AnimSpec == AnimInit /\ [][NextAnim]_vars

----------------------------------------------------------------------------
\* $.fn.tabs: setup auto height (fxAutoHeight: true), on one container

\* Widths, heights and font sizes.
Sizes == 1..MaxSize

\* jq.height(): the height of section s, its natural height (that of its
\* content at the present width and font size) or its min-height if that is
\* more.
Height(a, s) ==
    IF a.minHeight[s] > a.natural[s] THEN a.minHeight[s] ELSE a.natural[s]

RECURSIVE SumHeights(_, _)
SumHeights(a, S) ==
    IF S = {} THEN 0
    ELSE LET s == CHOOSE x \in S : TRUE
         IN Height(a, s) + SumHeights(a, S \ {s})

\* container.offsetHeight: the visible sections make the container's height.
OffsetHeight(a) == SumHeights(a, VisibleSections(1))

\* The heights _setAutoHeight(reset) measures: with reset the min-height is
\* cleared first.
Measured(a, reset) ==
    [s \in Sections |-> IF reset THEN a.natural[s] ELSE Height(a, s)]

\* _setAutoHeight(reset): heights[0], the largest measured height, becomes
\* the min-height of every section.
SetAutoHeight(a, reset) ==
    LET h == Measured(a, reset)
    IN  [a EXCEPT !.minHeight = [s \in Sections |-> Max({h[x] : x \in Sections})]]

\* currentHeight > cachedHeight || currentWidth != cachedWidth ||
\* currentFontSize != cachedFontSize
PollTrigger(a) ==
    \/ OffsetHeight(a) > a.cachedHeight
    \/ a.width # a.cachedWidth
    \/ a.fontSize # a.cachedFontSize

\* A mutant of PollReset: min-height is never cleared.
PollResetNever(a) == FALSE

\* currentWidth > cachedWidth || currentFontSize < cachedFontSize
PollReset(a) == a.width > a.cachedWidth \/ a.fontSize < a.cachedFontSize

\* The sizes a poll leaves behind it (not kept by the code).
Seen(a) ==
    [a EXCEPT !.seenWidth = a.width,
              !.seenHeight = OffsetHeight(a),
              !.seenFontSize = a.fontSize]

\* What the function given to setInterval does.
PollResult(a) ==
    IF PollTrigger(a)
    THEN Seen([SetAutoHeight(a, PollReset(a)) EXCEPT
                  !.did = IF PollReset(a) THEN "reset" ELSE "measure",
                  !.cachedWidth = a.width,
                  !.cachedHeight = OffsetHeight(a),
                  !.cachedFontSize = a.fontSize])
    ELSE Seen([a EXCEPT !.did = "none"])

\* The state after tabs({fxAutoHeight: true}) on one container of NTabs
\* sections: the first tab is selected, _setAutoHeight() has run and the
\* sizes are cached.
AutoHeightInit ==
    /\ pc = "ready"
    /\ args = NoArgs
    /\ browser = "other"
    /\ bookmarkable = FALSE
    /\ nSec = [c \in {1} |-> NTabs]
    /\ LET r == TabsResult(NoArgs, nSec, 1)
       IN  /\ selected = [c \in {1} |-> r[c].selected]
           /\ disabled = [c \in {1} |-> r[c].disabled]
           /\ hideClass = [c \in {1} |-> r[c].hideClass]
    /\ display = [c \in {1} |-> NoDisplay]
    /\ fxQueue = [c \in {1} |-> EmptyQueues]
    /\ handled = Event("init", 0, 0)
    /\ fx = NoFx
    /\ \E w \in Sizes, f \in Sizes, n \in [Sections -> Sizes] :
          LET a == SetAutoHeight([NoAutoHeight EXCEPT !.on = TRUE, !.width = w,
                                     !.fontSize = f, !.natural = n], FALSE)
          IN  ah = Seen([a EXCEPT !.did = "measure",
                                  !.cachedWidth = w,
                                  !.cachedHeight = OffsetHeight(a),
                                  !.cachedFontSize = f])

\* setInterval(function() {...}, 50): one poll.
Poll ==
    /\ Idle
    /\ ah.on
    /\ ah' = PollResult(ah)
    /\ handled' = Event("poll", 1, 0)
    /\ UNCHANGED <<fx, pc, args, browser, bookmarkable, nSec, selected, disabled,
                   hideClass, display, fxQueue>>

\* The page changes between two polls: the container gets another width, the
\* font another size or the sections another content, and with them the
\* sections other natural heights.
Layout ==
    /\ Idle
    /\ ah.on
    /\ \E w \in Sizes, f \in Sizes, n \in [Sections -> Sizes] :
          /\ ah' = [ah EXCEPT !.width = w, !.fontSize = f, !.natural = n]
          /\ ah' # ah
    /\ UNCHANGED <<fx, pc, args, browser, bookmarkable, nSec, selected, disabled,
                   hideClass, display, fxQueue, handled>>

NextAutoHeight ==
    \/ Return
    \/ Poll
    \/ Layout

AutoHeightSpec == AutoHeightInit /\ [][NextAutoHeight]_vars

----------------------------------------------------------------------------
\* Properties

\* No hide or show callback of container c is pending.
Quiescent(c) == AnimCount(c) = 0

\* The state of the widgets is left as it was.
WidgetUnchanged ==
    /\ selected' = selected
    /\ disabled' = disabled
    /\ hideClass' = hideClass
    /\ display' = display
    /\ fxQueue' = fxQueue

\* The tab a command with position pos acts on.
TargetTabs(pos) == TabAt(TabIndex(pos))

\* C1 (as claimed; the code violates it): whenever a show callback has run and
\* no hide or show callback of the container is pending any more, that is
\* after every completed transition, exactly one tab is selected and exactly
\* one section is visible.
C1_ExactlyOneAfterTransition ==
    \A c \in Containers :
        (handled.op = "showDone" /\ handled.c = c /\ Quiescent(c)) =>
            /\ Cardinality(selected[c]) = 1
            /\ Cardinality(VisibleSections(c)) = 1

\* C2 (as claimed; the code violates it): the selected state never moves onto
\* a tab that is disabled at that moment.
C2_DisabledNeverSelected ==
    [][\A c \in Containers : \A p \in Tabs :
          (p \notin selected[c] /\ p \in selected'[c]) => p \notin disabled'[c]]_vars

\* C3: in every reachable state at most one tab of a container is selected.
C3_AtMostOneSelected ==
    \A c \in Containers : Cardinality(selected[c]) <= 1

\* C3's case: two transitions overlap (a second one is still queued or
\* running) and the hide callback of one of them has just moved the selection.
C3_Witness ==
    /\ handled.op = "hideDone"
    /\ selected[handled.c] = {handled.pos}
    /\ \E s \in Sections :
          /\ fxQueue[handled.c][s] # <<>>
          /\ Head(fxQueue[handled.c][s]).clicked # handled.pos

\* C4 (as claimed; the code violates it): a click or activate starts a
\* transition only when no transition of the container is in flight.
C4_OneTransitionInFlight ==
    [][\A c \in Containers :
          (handled'.op \in {"click", "triggerTab"} /\ fxQueue'[c] # fxQueue[c])
              => Quiescent(c)]_vars

\* The classes and styles of container c and its animation queues are left
\* as they were.
ContainerUnchanged(c) ==
    /\ selected'[c] = selected[c]
    /\ disabled'[c] = disabled[c]
    /\ hideClass'[c] = hideClass[c]
    /\ display'[c] = display[c]
    /\ fxQueue'[c] = fxQueue[c]

\* C5: a click on a disabled tab, and an activate of a disabled tab, change
\* neither the selected tab nor any section's visibility and queue no
\* animation, as long as the tab is disabled.
C5_DisabledIgnored ==
    [][\A c \in Containers : \A p \in disabled[c] :
          (\/ handled'.op = "click" /\ handled'.c = c /\ handled'.pos = p
           \/ handled'.op = "triggerTab" /\ p \in TargetTabs(handled'.pos))
              => ContainerUnchanged(c)]_vars

\* C5's case: a disabled tab has just been clicked that is not selected, whose
\* section exists and is hidden while another section is visible: the click
\* would have started a transition, had the tab been enabled.
C5_Witness ==
    /\ handled.op = "click"
    /\ handled.pos \in disabled[handled.c]
    /\ handled.pos \notin selected[handled.c]
    /\ handled.pos <= nSec[handled.c]
    /\ ~IsVisible(handled.c, handled.pos)
    /\ VisibleSections(handled.c) # {}

\* C6: a click on the selected tab changes no section's visibility and queues
\* no animation.
C6_SelectedClickIgnored ==
    [][\A c \in Containers : \A p \in selected[c] :
          (handled'.op = "click" /\ handled'.c = c /\ handled'.pos = p)
              => ContainerUnchanged(c)]_vars

\* C6's case: the selected tab, enabled and with its section visible, has just
\* been clicked.
C6_Witness ==
    /\ handled.op = "click"
    /\ handled.pos \in selected[handled.c]
    /\ handled.pos \notin disabled[handled.c]
    /\ IsVisible(handled.c, handled.pos)

ClickSelects(c, p) == \E s \in Sections : ClickQueue(c, p)[s] # fxQueue[c][s]

\* C8 (as claimed; the code violates it): disable and enable leave the
\* selected tab as it is, and after enable(p) a click on tab p, if p is not
\* selected and its section exists, starts the transition that selects p and
\* deselects the selected tab.  The claim is stated for the containers it is
\* least demanding for: every tab has its section, a tab is selected and no
\* animation is pending.
C8_EnableRestoresClick ==
    [][/\ handled'.op \in {"disableTab", "enableTab"} => selected' = selected
       /\ (handled'.op = "enableTab" /\ handled'.pos \in Tabs) =>
              \A c \in Containers : \A p \in TargetTabs(handled'.pos) :
                  (/\ p \notin selected'[c]
                   /\ selected'[c] # {}
                   /\ nSec[c] = NTabs
                   /\ Quiescent(c)) => ClickSelects(c, p)']_vars

Commands == {"triggerTab", "disableTab", "enableTab"}

\* C9 (as claimed; fails for zero and negative positions): a command with a
\* position greater than the number of tabs, zero or negative changes nothing.
C9_OutOfRangeNoOp ==
    [][(handled'.op \in Commands /\ (handled'.pos > NTabs \/ handled'.pos <= 0))
          => WidgetUnchanged]_vars

\* What the command op with position pos does to the widgets.
CommandEffect(op, pos) ==
    /\ selected' = selected
    /\ hideClass' = hideClass
    /\ display' = display
    /\ op = "disableTab" =>
          /\ disabled' = [c \in Containers |-> disabled[c] \cup ({pos} \cap Tabs)]
          /\ fxQueue' = fxQueue
    /\ op = "enableTab" =>
          /\ disabled' = [c \in Containers |-> disabled[c] \ {pos}]
          /\ fxQueue' = fxQueue
    /\ op = "triggerTab" =>
          /\ disabled' = disabled
          /\ fxQueue' = [c \in Containers |->
                IF /\ pos \in Tabs /\ pos <= nSec[c] /\ ~IsVisible(c, pos)
                   /\ pos \notin disabled[c]
                   /\ (browser \in {"msie", "safari"} \/ ~bookmarkable)
                THEN ClickQueue(c, pos)
                ELSE fxQueue[c]]

\* C9 (amended): a command with position k in 1..N acts on tab k; with a
\* position greater than N it changes nothing; with a position that is zero
\* or negative it acts on the first tab, as with position 1.
C9_PositionAmended ==
    [][handled'.op \in Commands =>
          /\ handled'.pos \in Tabs => CommandEffect(handled'.op, handled'.pos)
          /\ handled'.pos > NTabs => WidgetUnchanged
          /\ handled'.pos <= 0 => CommandEffect(handled'.op, 1)]_vars

\* C9's case: activate with a negative position has just queued the hide
\* animation of a transition towards the first tab.
C9_Witness ==
    /\ handled.op = "triggerTab"
    /\ handled.pos < 0
    /\ 1 \notin selected[1]
    /\ AnimCount(1) = 1
    /\ \E s \in Sections :
          /\ fxQueue[1][s] # <<>>
          /\ Head(fxQueue[1][s]).kind = "hide"
          /\ Head(fxQueue[1][s]).clicked = 1

\* The state container c gets from a tabs() call with the same arguments on
\* c alone.
Alone(c) == InitContainer(c, MakeSettings(args), args.hash, nSec[c])

\* C10 (as claimed; the code violates it): after one tabs() call on several
\* containers each container has the initial tab, the hidden sections and the
\* disabled tabs it gets from the same call on it alone.
C10_NoSharedState ==
    pc = "ready" =>
        \A c \in Containers :
            /\ selected[c] = Alone(c).selected
            /\ hideClass[c] = Alone(c).hideClass
            /\ disabled[c] = Alone(c).disabled

\* No tab of the page has location.hash as its fragment.
NoFragmentMatch == args.hash[1] \notin Containers

\* The initial position a tabs() call configures, read as a 1-based position.
ConfiguredPosition(a) ==
    IF a.hasOptInitial THEN a.optInitial
    ELSE IF a.hasInitial THEN a.initial
    ELSE 1

\* C11 (as claimed; fails for the `initial` option): when no tab's fragment
\* matches the URL fragment, tabs() with the 1-based position p, given as the
\* initial argument or as the `initial` option (default 1), leaves tab p
\* selected, section p visible and every other section hidden.
C11_InitialPosition ==
    (pc = "ready" /\ NoFragmentMatch /\ ~(args.hasInitial /\ args.hasOptInitial)) =>
        \A c \in Containers :
            LET p == ConfiguredPosition(args)
            IN  p \in Tabs =>
                    /\ selected[c] = {p}
                    /\ VisibleSections(c) = {p} \cap (1..nSec[c])

\* C11 (amended): when no tab's fragment matches the URL fragment, an
\* `initial` option i is a 0-based index and selects tab i + 1, whatever the
\* initial argument is; without the option the initial argument p selects tab
\* p, and the first tab when p is omitted, zero or negative.  The section of
\* the tab is the only visible one; a position beyond the last tab leaves no
\* tab selected and no section visible.
C11_InitialAmended ==
    (pc = "ready" /\ NoFragmentMatch) =>
        \A c \in Containers :
            LET p == IF args.hasOptInitial THEN args.optInitial + 1
                     ELSE IF args.hasInitial /\ args.initial > 0 THEN args.initial
                     ELSE 1
            IN  /\ selected[c] = {p} \cap Tabs
                /\ VisibleSections(c) = {p} \cap (1..nSec[c])

\* C11's case: tabs({initial: 1}) on a page whose URL has no fragment has
\* just selected the second tab and left its section the only visible one.
C11_Witness ==
    /\ pc = "ready"
    /\ handled.op = "tabs"
    /\ args.hash = NoHash
    /\ args.hasOptInitial /\ args.optInitial = 1 /\ ~args.hasInitial
    /\ selected[1] = {2}
    /\ VisibleSections(1) = {2}

\* C12: when location.hash is the fragment of a tab of a container, tabs()
\* leaves that tab the selected one of the container and its section the only
\* visible one, whatever initial position the call configures.
C12_FragmentWins ==
    pc = "ready" =>
        \A c \in Containers : \A p \in Tabs :
            args.hash = TabHash(c, p) =>
                /\ selected[c] = {p}
                /\ VisibleSections(c) = {p} \cap (1..nSec[c])

\* C12's case: the URL fragment is the one of tab 3 while the call asks for
\* tab 2; tab 3 is selected and its section the visible one.
C12_Witness ==
    /\ pc = "ready"
    /\ handled.op = "tabs"
    /\ args.hash = TabHash(1, 3)
    /\ args.hasInitial /\ args.initial = 2 /\ ~args.hasOptInitial
    /\ selected[1] = {3}
    /\ VisibleSections(1) = {3}

\* C14: after tabs() on a single container with the disabled positions D,
\* the disabled tabs are exactly those at the positions in D.
C14_DisabledAtInit ==
    (pc = "ready" /\ Containers = {1}) => disabled[1] = args.optDisabled

\* C14's case: tabs({disabled: [2, 3]}) on one container has just run.
C14_Witness ==
    /\ pc = "ready"
    /\ handled.op = "tabs"
    /\ Containers = {1}
    /\ args.optDisabled = {2, 3}
    /\ disabled[1] = {2, 3}

\* C13: a click on an enabled, not selected tab whose section does not exist
\* calls alert() and changes nothing: no class, no style, no animation queue,
\* and no onClick timeout is set.
C13_MissingSectionAlert ==
    [][\A c \in Containers : \A p \in Tabs :
          (/\ handled'.op = "click" /\ handled'.c = c /\ handled'.pos = p
           /\ p \notin disabled[c] /\ p \notin selected[c] /\ p > nSec[c])
              => /\ handled'.alert
                 /\ handled'.timers = {}
                 /\ ContainerUnchanged(c)]_vars

\* C13's case: a tab without section has just been clicked while another
\* tab's section is visible and no animation runs; the handler has alerted.
C13_Witness ==
    /\ handled.op = "click"
    /\ handled.alert
    /\ handled.pos > nSec[handled.c]
    /\ VisibleSections(handled.c) # {}
    /\ Quiescent(handled.c)

\* C15 (as claimed; fails for a disabled tab): the click handler returns
\* true when bookmarkable is on and false when it is off, on every path.
C15_ReturnIsBookmarkable ==
    handled.op = "click" => handled.ret = bookmarkable

\* C15 (amended): the click handler returns false for a disabled tab,
\* whatever bookmarkable is; on every other path (selected tab, missing
\* section, accepted click) it returns true when bookmarkable is on and
\* false when it is off.
C15_ReturnAmended ==
    handled.op = "click" =>
        IF handled.pos \in disabled[handled.c]
        THEN handled.ret = FALSE
        ELSE handled.ret = bookmarkable

\* C15's case: with bookmarkable on, a disabled tab has just been clicked and
\* the handler has returned false.
C15_Witness ==
    /\ handled.op = "click"
    /\ bookmarkable
    /\ handled.pos \in disabled[handled.c]
    /\ ~handled.ret

\* The show animation a hide callback has just queued for tab p of c.
QueuedShow(c, p) == fxQueue'[c][p][Len(fxQueue'[c][p])]

\* C16 (as claimed; the code violates it): the selection changes only in a
\* hide callback, and when a hide callback of a click selects the clicked
\* tab and starts the show animation, the hide animation of that click has
\* ended on every section of toHide: none of the other sections of toHide
\* (those whose queue the callback leaves alone) still has it queued.
C16_HideBeforeShow ==
    [][\A c \in Containers :
          /\ selected'[c] # selected[c] =>
                 (handled'.op = "hideDone" /\ handled'.c = c)
          /\ (handled'.op = "hideDone" /\ handled'.c = c) =>
                 LET sh == QueuedShow(c, handled'.pos)
                 IN  /\ sh.kind = "show"
                     /\ \A s \in sh.toHide :
                            fxQueue'[c][s] = fxQueue[c][s] =>
                                \A i \in 1..Len(fxQueue[c][s]) :
                                    fxQueue[c][s][i] #
                                        [kind |-> "hide", clicked |-> sh.clicked,
                                         toHide |-> sh.toHide]]_vars

\* The hide animation an accepted click on tab p of c queues on toHide.
HideOf(c, p) == [kind |-> "hide", clicked |-> p, toHide |-> VisibleSections(c)]

AcceptedClick(p) ==
    /\ handled.op = "click"
    /\ handled.pos = p
    /\ handled.timers # {}

\* A click on another tab than p has just been accepted, from the user or
\* through triggerTab.
AcceptedOther(p) ==
    /\ handled.op \in {"click", "triggerTab"}
    /\ handled.timers # {}
    /\ TimerClicked # p

\* C20 (as claimed; the code violates it): when timers and animation
\* callbacks run, an accepted click on tab p is followed by a state in which
\* tab p is selected and its section visible, unless a click on another tab
\* is accepted before.  Stated for the containers in which every tab has its
\* section.
C20_ClickEventuallySelects ==
    \A p \in Tabs :
        (AcceptedClick(p) /\ nSec[1] = NTabs) ~>
            ((p \in selected[1] /\ IsVisible(1, p)) \/ AcceptedOther(p))

\* C19 (as claimed; fails when only one of fxShow and fxHide is given): the
\* show and the hide animation come from one strategy: with fxFade or fxSlide
\* both are the fade/slide animation with speed fxSpeed; otherwise, with
\* fxShow or fxHide given, they are fxShow and fxHide with the speeds
\* fxShowSpeed and fxHideSpeed (fxSpeed where not given); otherwise both are
\* the default animation with speed 50 with bookmarkable and 1 without.
C19_OneStrategy ==
    fx.done =>
        LET o == fx.settings
        IN  IF o.fxSlide \/ o.fxFade
            THEN /\ fx.showAnim = SlideFadeAnim(o, "show")
                 /\ fx.hideAnim = SlideFadeAnim(o, "hide")
                 /\ fx.showSpeed = o.fxSpeed /\ fx.hideSpeed = o.fxSpeed
            ELSE IF o.fxShow # {} \/ o.fxHide # {}
            THEN /\ fx.showAnim = o.fxShow
                 /\ fx.hideAnim = o.fxHide
                 /\ fx.showSpeed = OrSpeed(o.fxShowSpeed, o.fxSpeed)
                 /\ fx.hideSpeed = OrSpeed(o.fxHideSpeed, o.fxSpeed)
            ELSE /\ fx.showAnim = {<<"opacity", "show">>}
                 /\ fx.hideAnim = {<<"opacity", "hide">>}
                 /\ fx.showSpeed = (IF bookmarkable THEN "50" ELSE "1")
                 /\ fx.hideSpeed = (IF bookmarkable THEN "50" ELSE "1")

\* C19 (amended): with fxFade or fxSlide both animations are the fade/slide
\* animation with speed fxSpeed and fxShow and fxHide are ignored; otherwise
\* the two are chosen each on its own: the show animation is fxShow with
\* speed fxShowSpeed (fxSpeed where not given) if fxShow is given and else the
\* default with speed 50 with bookmarkable and 1 without, and the same for
\* the hide animation with fxHide and fxHideSpeed.
C19_StrategyAmended ==
    fx.done =>
        LET o == fx.settings
            default == IF bookmarkable THEN "50" ELSE "1"
        IN  IF o.fxSlide \/ o.fxFade
            THEN /\ fx.showAnim = SlideFadeAnim(o, "show")
                 /\ fx.hideAnim = SlideFadeAnim(o, "hide")
                 /\ fx.showSpeed = o.fxSpeed /\ fx.hideSpeed = o.fxSpeed
            ELSE /\ IF o.fxShow # {}
                    THEN /\ fx.showAnim = o.fxShow
                         /\ fx.showSpeed = OrSpeed(o.fxShowSpeed, o.fxSpeed)
                    ELSE /\ fx.showAnim = {<<"opacity", "show">>}
                         /\ fx.showSpeed = default
                 /\ IF o.fxHide # {}
                    THEN /\ fx.hideAnim = o.fxHide
                         /\ fx.hideSpeed = OrSpeed(o.fxHideSpeed, o.fxSpeed)
                    ELSE /\ fx.hideAnim = {<<"opacity", "hide">>}
                         /\ fx.hideSpeed = default

\* C19's case: only fxShow is given; the show animation is fxShow, the hide
\* animation the default one.
C19_Witness ==
    /\ fx.done
    /\ ~fx.settings.fxSlide /\ ~fx.settings.fxFade
    /\ fx.settings.fxShow # {} /\ fx.settings.fxHide = {}
    /\ fx.showAnim = fx.settings.fxShow
    /\ fx.hideAnim = {<<"opacity", "hide">>}
    /\ fx.hideSpeed \in {"50", "1"}

\* Every section has the largest of the heights h as its min-height.
UniformMinHeight(a, h) ==
    \A s \in Sections : a.minHeight[s] = Max({h[x] : x \in Sections})

\* C18 (as claimed; fails for the poll): a poll remeasures whenever the
\* container's width or height or the font size is not what it was at the end
\* of the poll before; a measurement leaves every section with the same
\* min-height, the largest measured height; and when the container has
\* become narrower or lower the min-height is cleared before the measurement.
C18_AutoHeight ==
    [][handled'.op = "poll" =>
          LET changed == \/ ah.width # ah.seenWidth
                         \/ OffsetHeight(ah) # ah.seenHeight
                         \/ ah.fontSize # ah.seenFontSize
              shrunk == \/ ah.width < ah.seenWidth
                        \/ OffsetHeight(ah) < ah.seenHeight
          IN  /\ changed => ah'.did # "none"
              /\ ah'.did # "none" =>
                     UniformMinHeight(ah', Measured(ah, ah'.did = "reset"))
              /\ (changed /\ shrunk) => ah'.did = "reset"]_vars

\* C18 (amended): a poll remeasures exactly when the container is higher
\* than the cached height, or its width or the font size differs from the
\* cached one, the cached sizes being those read by the last poll that
\* remeasured (at first those of the initialization); the min-height is
\* cleared before the measurement exactly when the container has become wider
\* or the font smaller; a measurement leaves every section with the same
\* min-height, the largest measured height, and caches the sizes read.
C18_AutoHeightAmended ==
    [][handled'.op = "poll" =>
          LET trigger == \/ OffsetHeight(ah) > ah.cachedHeight
                         \/ ah.width # ah.cachedWidth
                         \/ ah.fontSize # ah.cachedFontSize
              reset == ah.width > ah.cachedWidth \/ ah.fontSize < ah.cachedFontSize
              heights == [s \in Sections |->
                             IF reset \/ ah.natural[s] >= ah.minHeight[s]
                             THEN ah.natural[s] ELSE ah.minHeight[s]]
          IN  IF trigger
              THEN /\ ah'.did = (IF reset THEN "reset" ELSE "measure")
                   /\ UniformMinHeight(ah', heights)
                   /\ ah'.cachedWidth = ah.width
                   /\ ah'.cachedHeight = OffsetHeight(ah)
                   /\ ah'.cachedFontSize = ah.fontSize
              ELSE /\ ah'.did = "none"
                   /\ ah'.minHeight = ah.minHeight
                   /\ ah'.cachedWidth = ah.cachedWidth
                   /\ ah'.cachedHeight = ah.cachedHeight
                   /\ ah'.cachedFontSize = ah.cachedFontSize]_vars

\* C18's case: a poll has just cleared the min-height and remeasured, and the
\* sections' new min-height is less than the container's height before.
C18_Witness ==
    /\ handled.op = "poll"
    /\ ah.did = "reset"
    /\ \A s \in Sections : ah.minHeight[s] < ah.cachedHeight

\* C21 (as claimed; the code violates it): whenever no hide or show callback
\* of a container is pending, its visible sections are exactly the section of
\* its selected tab.
C21_VisibleIsSelected ==
    \A c \in Containers :
        Quiescent(c) =>
            VisibleSections(c) = {p \in selected[c] : SectionExists(c, p)}

\* The number of hide callbacks the step queues in container c: each of them
\* invokes onHide once and starts one show animation, whose callback invokes
\* onShow once.
CallbacksQueued(c) ==
    Cardinality({s \in Sections : Len(fxQueue'[c][s]) > Len(fxQueue[c][s])})

\* C22 (as claimed; the code violates it): an accepted click sets one
\* onClick timeout and queues one hide callback, so that onClick, onHide and
\* onShow are each invoked once for it, whatever the number of visible
\* sections is.  Stated for the containers in which every tab has its
\* section.
C22_CallbacksOnce ==
    [][\A c \in Containers : \A p \in Tabs :
          (/\ handled'.op = "click" /\ handled'.c = c /\ handled'.pos = p
           /\ p \notin disabled[c] /\ p \notin selected[c]
           /\ nSec[c] = NTabs)
              => /\ handled'.timers = {c}
                 /\ CallbacksQueued(c) = 1]_vars

\* C23: disableTab(p) and enableTab(p), p a position of a tab, add p to and
\* remove p from the disabled tabs of every container and change nothing
\* else: not the selected tab, no section's class or style, no other tab's
\* disabled class, no animation queue; disabling a disabled tab and enabling
\* an enabled tab change nothing at all.
C23_DisableEnableFrame ==
    [][(handled'.op \in {"disableTab", "enableTab"} /\ handled'.pos \in Tabs) =>
          LET p == handled'.pos
          IN  /\ selected' = selected
              /\ hideClass' = hideClass
              /\ display' = display
              /\ fxQueue' = fxQueue
              /\ \A c \in Containers :
                     /\ \A q \in Tabs \ {p} :
                            q \in disabled'[c] <=> q \in disabled[c]
                     /\ p \in disabled'[c] <=> handled'.op = "disableTab"
                     /\ (handled'.op = "disableTab" /\ p \in disabled[c]) =>
                            disabled'[c] = disabled[c]
                     /\ (handled'.op = "enableTab" /\ p \notin disabled[c]) =>
                            disabled'[c] = disabled[c]]_vars

\* C23's case: the selected tab has just been disabled while the hide
\* animation of a click on another tab runs; it is disabled and still the
\* selected tab, and another tab is disabled as before.
C23_Witness ==
    /\ handled.op = "disableTab"
    /\ handled.pos \in selected[1] \cap disabled[1]
    /\ disabled[1] # {handled.pos}
    /\ ~Quiescent(1)

====
